---- MODULE Spec2Model ----
(***************************************************************************)
(* Face-recognition attendance tracker: the attendance manager's per-day   *)
(* CSV ledgers, its lock and cooldown map, the two pages that drive it     *)
(* (camera page and manual page), the liveness gate, the face gallery and  *)
(* the employee registry.                                                  *)
(*                                                                         *)
(* Time is wall-clock time in whole seconds since 00:00:00 of day 0.       *)
(* A ledger row keeps the columns the manager reads back or rewrites:      *)
(* Employee_ID, Check_In, Check_Out and Total_Hours (in hundredths of an   *)
(* hour).  Name, Department, Position, Date and Status are copied from the *)
(* registry or fixed at check-in and never read back by the manager.       *)
(***************************************************************************)
EXTENDS Integers, Sequences, FiniteSets, TLC

\* ------------------------------------------------------------------ bounds
\* Number of clock advances in a behaviour.
MaxTicks == 3
\* Number of page requests (camera frames processed, manual actions, status
\* queries) in a behaviour.
MaxCalls == 4
\* The same two, for the concurrent pages and for one request at a time.
MaxHours == 1
SeqCalls == 3

\* ------------------------------------------------------- program constants
COOLDOWN_SECONDS == 60
MIN_CHECKOUT_MINUTES == 60
SecondsPerMinute == 60
SecondsPerHour == 3600
SecondsPerDay == 86400

\* Clock advances: one second, just under the cooldown and just under the
\* minimum check-out time (the three add up to it).
TickSteps == {1, 59, 3540}

\* Registry (employees.json): emp_id -> name.  "7" is an id made of digits:
\* the Employee ID is a free text input.
EmpIds == {"E1", "7"}
NameOf(e) == IF e = "E1" THEN "Alice" ELSE "Bob"
\* Labels the recognition pipeline can hand to the camera page.
Labels == {"Alice", "Bob", "Unknown"}
Modes == {"CHECK_IN", "CHECK_OUT"}
Threads == {"cam", "adm"}
Dates == 0 .. MaxTicks

VARIABLES
    now,             \* wall clock, seconds
    ticks,           \* clock advances so far
    calls,           \* page requests so far
    employees,       \* self.employees: the registered emp_ids
    ledger,          \* attendance_<date>.csv, one file per date
    lock,            \* self.lock: "free" or the thread holding it
    last_processed,  \* self.last_processed: emp_id -> time, -1 when absent
    th,              \* per thread: the position in its call and its locals
    result,          \* the result of the call that returned last
    returned,        \* the SUCCESS results handed to callers so far
    live,            \* is_live of the last check_liveness verdict
    counter,         \* LivenessDetector.counter: the streak of low-EAR frames
    total_blinks,    \* LivenessDetector.total_blinks
    last_blink_time, \* LivenessDetector.last_blink_time
    verdict,         \* the last check_liveness result and when it was given
    since_reset,     \* what the detector has seen since its last reset
    known_faces_dir, \* the files of known_faces/, in os.listdir order
    known_face_encodings, \* FaceUtils.known_face_encodings
    known_face_names,     \* FaceUtils.known_face_names
    registry,        \* self.employees with the names, in insertion order
    face_result,     \* the last registration or recognition call and its result
    report,          \* the last report call and the frame it returned
    time_since_last, \* a cooldown check's time_since_last, in milliseconds
    wait_seconds,    \* the seconds its message states, NoTime before the check
    users_file,      \* auth/users.json
    sessions_file,   \* auth/sessions.json
    pending,         \* a login between its read of sessions.json and its write
    issued,          \* the tokens login has generated, in order
    auth_result      \* the last AuthManager call and what it returned

\* The attendance manager with its pages, and the liveness detector.
attendanceVars == <<ticks, calls, employees, ledger, lock, last_processed, th,
                    result, returned>>
detectorVars == <<counter, total_blinks, last_blink_time, verdict, since_reset>>
\* The face gallery with its directory, and the registry's entries.
faceVars == <<known_faces_dir, known_face_encodings, known_face_names,
              registry, face_result>>
\* The report pages, and the cooldown message on its own.
reportVars == <<report>>
cooldownVars == <<time_since_last, wait_seconds>>
\* The user and session store.
authVars == <<users_file, sessions_file, pending, issued, auth_result>>
\* What no step of the gallery or the registry touches, besides the pages.
sideVars == <<detectorVars, reportVars, cooldownVars, authVars>>
\* What no step of the attendance pages touches.
otherVars == <<detectorVars, faceVars, reportVars, cooldownVars, authVars>>

vars == <<now, ticks, calls, employees, ledger, lock, last_processed, th,
          result, returned, live, otherVars>>

\* ---------------------------------------------------------------- ledger
NoTime == -1
NaN == ""
Missing == [state |-> "missing", rows |-> <<>>]
Partial == [state |-> "partial", rows |-> <<>>]
File(rows) == [state |-> "ok", rows |-> rows]

DateOf(t) == t \div SecondsPerDay
TimeOf(t) == t % SecondsPerDay

\* Ids that read_csv parses as numbers.
NumericIds == {"7", "7.0"}
FloatStr(id) == IF id = "7" THEN "7.0" ELSE id

\* dtype of the Employee_ID column after read_csv: object (strings) as soon
\* as one value is not a number, else int64, or float64 when a value is
\* missing or written with a decimal point.
ColumnIsObject(rows) ==
    \E i \in 1 .. Len(rows) : rows[i].emp \notin NumericIds \cup {NaN}
ColumnIsFloat(rows) ==
    /\ ~ColumnIsObject(rows)
    /\ \E i \in 1 .. Len(rows) : rows[i].emp \in {NaN, "7.0"}

\* pd.read_csv followed by to_csv: a float64 id column is written back with
\* a decimal point.
ReadCsv(rows) ==
    IF ColumnIsFloat(rows)
    THEN [i \in 1 .. Len(rows) |-> [rows[i] EXCEPT !.emp = FloatStr(@)]]
    ELSE rows

\* df['Employee_ID'] == emp_id, row by row: a number never equals a string.
IdMatches(rows, i, emp) == ColumnIsObject(rows) /\ rows[i].emp = emp

RECURSIVE SelectIdx(_, _, _)
SelectIdx(rows, emp, i) ==
    IF i > Len(rows) THEN <<>>
    ELSE (IF IdMatches(rows, i, emp) THEN <<i>> ELSE <<>>)
         \o SelectIdx(rows, emp, i + 1)

\* emp_records: the positions of the employee's rows, in file order.
EmpRecords(rows, emp) == SelectIdx(rows, emp, 1)

Last(s) == s[Len(s)]

\* ---------------------------------------------------------------- status
NoStatus ==
    [is_checked_in |-> FALSE, check_in_time |-> NoTime, elapsed |-> 0,
     record_index |-> 0, has_incomplete_record |-> FALSE,
     already_checked_in_today |-> FALSE, last_check_out |-> NoTime,
     error |-> FALSE]

\* _calculate_elapsed_minutes, in seconds: the stored time of day is parsed
\* with the date of the call.
ElapsedSeconds(today, time, t) == t - (today * SecondsPerDay + time)

\* A variant of StatusOf that says nothing of a file it could not read.
StatusOfSilent(file, emp, t) ==
    IF file.state # "ok" THEN NoStatus
    ELSE LET rows == file.rows
             recs == EmpRecords(rows, emp)
             done == SelectSeq(recs, LAMBDA i : rows[i].check_out # NoTime)
         IN  IF recs = <<>> THEN NoStatus
             ELSE IF done # <<>>
             THEN [NoStatus EXCEPT !.already_checked_in_today = TRUE,
                                   !.last_check_out = rows[Last(done)].check_out]
             ELSE [NoStatus EXCEPT
                      !.is_checked_in = TRUE,
                      !.check_in_time = rows[Last(recs)].check_in,
                      !.elapsed = ElapsedSeconds(DateOf(t), rows[Last(recs)].check_in, t),
                      !.record_index = Last(recs),
                      !.has_incomplete_record = TRUE]

\* get_current_status once the file has been read (or could not be).
StatusOf(file, emp, t) ==
    IF file.state # "ok" THEN [NoStatus EXCEPT !.error = TRUE]
    ELSE LET rows == file.rows
             recs == EmpRecords(rows, emp)
             done == SelectSeq(recs, LAMBDA i : rows[i].check_out # NoTime)
         IN  IF recs = <<>> THEN NoStatus
             ELSE IF done # <<>>
             THEN [NoStatus EXCEPT !.already_checked_in_today = TRUE,
                                   !.last_check_out = rows[Last(done)].check_out]
             ELSE [NoStatus EXCEPT
                      !.is_checked_in = TRUE,
                      !.check_in_time = rows[Last(recs)].check_in,
                      !.elapsed = ElapsedSeconds(DateOf(t), rows[Last(recs)].check_in, t),
                      !.record_index = Last(recs),
                      !.has_incomplete_record = TRUE]

\* State of (employee, date) as the rows of a ledger file show it, by the
\* text of the Employee_ID column.
OwnedBy(row, e) == row.emp = e \/ (e \in NumericIds /\ row.emp = FloatStr(e))
OpenRows(file, e) ==
    {i \in 1 .. Len(file.rows) :
        OwnedBy(file.rows[i], e) /\ file.rows[i].check_out = NoTime}
ClosedRows(file, e) ==
    {i \in 1 .. Len(file.rows) :
        OwnedBy(file.rows[i], e) /\ file.rows[i].check_out # NoTime}
StateOf(file, e) ==
    IF file.state = "partial" THEN "Unreadable"
    ELSE IF ClosedRows(file, e) # {} THEN "Closed"
    ELSE IF OpenRows(file, e) # {} THEN "CheckedIn"
    ELSE "NoRecord"

\* round(total_seconds / 3600, 2), in hundredths of an hour.  A duration of
\* 18 seconds more than a multiple of 36 lies halfway between two hundredths
\* and round() then follows the binary value of the quotient (18 s gives
\* 0.01 and 54 s gives 0.01 as well); the clock steps give no such duration.
Hundredths(secs) ==
    IF secs >= 0 THEN (2 * secs + 36) \div 72 ELSE 0 - ((36 - 2 * secs) \div 72)

\* --------------------------------------------------------------- threads
\* A call in progress is kept with its position, its arguments, the values
\* it has read, and whether a step of it has changed the rows of a ledger.
Idle ==
    [pc |-> "idle", ret |-> "none", origin |-> "none", emp |-> "", mode |-> "",
     pre |-> "none", t0 |-> 0, ct |-> 0, gd |-> 0, st |-> NoStatus,
     df |-> <<>>, wrote |-> FALSE]

NoResult ==
    [status |-> "NONE", msg |-> "", n |-> 0, emp |-> "", mode |-> "",
     origin |-> "none", pre |-> "none", by |-> "none", start |-> 0,
     wrote |-> FALSE]

Res(t, status, msg, n) ==
    [status |-> status, msg |-> msg, n |-> n, emp |-> th[t].emp,
     mode |-> th[t].mode, origin |-> th[t].origin, pre |-> th[t].pre,
     by |-> t, start |-> th[t].t0, wrote |-> th[t].wrote]

\* No check_liveness call has returned yet.  A verdict is kept with the time
\* it was given at, the number of faces of its frame, whether the last of
\* them raised, what the detector had seen since its reset by then, and the
\* eye aspect ratios detect_blink computed for the frame.
NoVerdict ==
    [is_live |-> FALSE, message |-> "", at |-> 0, faces |-> 0,
     raised |-> FALSE, blink_at |-> NoTime, frames |-> 0, ears |-> <<>>,
     sides |-> {}]

\* Since construction or reset(): no blink registered, no face processed;
\* was_live tells whether the detector held a blink less than three seconds
\* old when it was reset, sides on which sides of the threshold the eye
\* aspect ratios processed so far lay.
NothingSeen ==
    [blink_at |-> NoTime, frames |-> 0, was_live |-> FALSE, sides |-> {}]

\* A file of known_faces/: its name without and with the extension's text,
\* whether cv2.imread can read it, and the embeddings face_recognition
\* finds in it, one per detected face (an embedding is a point of a line, in
\* tenths of the distance unit).
ImageFile(stem, ext, faces) ==
    [stem |-> stem, ext |-> ext, readable |-> TRUE, faces |-> faces]
NoImage == [readable |-> FALSE, faces |-> <<>>]
NoFrame == [kind |-> "", faces |-> <<>>, detect_raises |-> FALSE]
\* No report asked for yet.  A report is kept with the method called, its
\* argument, the date range given (0 when none) and the rows returned, each
\* with the date of its file.
NoReport ==
    [op |-> "", arg |-> "", from |-> NoTime, to |-> NoTime, rows |-> <<>>,
     raised |-> FALSE]
NoCall ==
    [op |-> "", ok |-> FALSE, raised |-> FALSE, arg |-> "", image |-> NoImage,
     frame |-> NoFrame, labels |-> <<>>, emp_id |-> ""]

\* _hash_password: the SHA-256 digest of the password.
HashPassword(password) == <<"sha256", password>>
\* A name users.json does not have, a token sessions.json does not have.
NoUser == [password |-> <<>>, role |-> "", status |-> "none", last_login |-> NoTime]
NoSession == [username |-> "", role |-> "", permissions |-> {}, expires_at |-> NoTime]
MaxTokens == 2

Init ==
    /\ now = 0
    /\ ticks = 0
    /\ calls = 0
    /\ employees = EmpIds
    /\ ledger = [d \in Dates |-> Missing]
    /\ lock = "free"
    /\ last_processed = [e \in EmpIds |-> NoTime]
    /\ th = [t \in Threads |-> Idle]
    /\ result = NoResult
    /\ returned = {}
    /\ live = FALSE
    /\ counter = 0
    /\ total_blinks = 0
    /\ last_blink_time = now
    /\ verdict = NoVerdict
    /\ since_reset = NothingSeen
    /\ known_faces_dir = <<ImageFile("Alice", "jpg", <<0>>),
                           ImageFile("Bob", "jpg", <<8>>)>>
    /\ known_face_encodings = <<0, 8>>
    /\ known_face_names = <<"Alice", "Bob">>
    /\ registry = <<[emp_id |-> "E1", name |-> "Alice"],
                    [emp_id |-> "7", name |-> "Bob"]>>
    /\ face_result = NoCall
    /\ report = NoReport
    /\ time_since_last = 0
    /\ wait_seconds = NoTime
    /\ users_file = [u \in {"admin", "bob"} |->
                  IF u = "admin"
                  THEN [password |-> HashPassword("admin123"), role |-> "admin",
                        status |-> "active", last_login |-> NoTime]
                  ELSE NoUser]
    /\ sessions_file = [token \in 1 .. MaxTokens |-> NoSession]
    /\ pending = <<>>
    /\ issued = <<>>
    /\ auth_result = [op |-> "", token |-> 0, permission |-> "", ok |-> FALSE,
                      at |-> 0]

\* The wall clock advances.
Tick(d) ==
    /\ ticks < MaxTicks
    /\ now' = now + d
    /\ ticks' = ticks + 1
    /\ UNCHANGED <<calls, employees, ledger, lock, last_processed, th, result,
                   returned, live, otherVars>>

\* A call returns `res` to its caller.
Return(t, res) ==
    /\ th' = [th EXCEPT ![t] = Idle]
    /\ result' = res

\* get_employee_by_name: the first registry entry with that name.
EmployeeByName(name) ==
    IF \E e \in employees : NameOf(e) = name
    THEN CHOOSE e \in employees : NameOf(e) = name
    ELSE ""

\* total_seconds() has a fractional part: times of the cooldown message are
\* in milliseconds.
MillisPerSecond == 1000
\* int(x) of a number given in thousandths: the fraction is dropped.
Trunc(x) ==
    IF x >= 0 THEN x \div MillisPerSecond ELSE 0 - ((0 - x) \div MillisPerSecond)
\* A variant of WaitSeconds that drops the fraction of the elapsed time.
WaitSecondsOfWholeElapsed(ms) == COOLDOWN_SECONDS - Trunc(ms)
\* Line 88: int(self.COOLDOWN_SECONDS - time_since_last).
WaitSeconds(ms) == Trunc(COOLDOWN_SECONDS * MillisPerSecond - ms)

\* A variant of InCooldown with no cooldown at all.
InCooldownOff(emp, t) == FALSE

\* process_attendance, lines 83-85: the employee was processed less than
\* COOLDOWN_SECONDS before t.
InCooldown(emp, t) ==
    last_processed[emp] # NoTime /\ t - last_processed[emp] < COOLDOWN_SECONDS

\* A variant of BelowMinimum with a minimum of 30 minutes, the figure the
\* manual page prints (app.py, line 496).
BelowMinimumHalf(st) == st.elapsed < 30 * SecondsPerMinute

\* Lines 135 and 259: less than the minimum time has elapsed.
BelowMinimum(st) == st.elapsed < MIN_CHECKOUT_MINUTES * SecondsPerMinute

\* process_attendance, lines 98-148: the branch taken on the status read at
\* line 95.
AfterStatusPA(t, st) ==
    LET me == th[t] IN
    /\ returned' = returned
    /\ last_processed' = last_processed
    /\ IF me.mode = "CHECK_IN"
       THEN IF st.already_checked_in_today
            THEN Return(t, Res(t, "ERROR", "completed", 0))
            ELSE IF st.is_checked_in
            THEN Return(t, Res(t, "INFO", "already_checked_in", 0))
            ELSE IF ~st.has_incomplete_record
            THEN /\ th' = [th EXCEPT ![t].pc = "ci_start"]
                 /\ result' = result
            ELSE Return(t, Res(t, "ERROR", "previous_session", 0))
       ELSE IF st.already_checked_in_today
            THEN Return(t, Res(t, "ERROR", "completed", 0))
            ELSE IF ~st.is_checked_in
            THEN Return(t, Res(t, "ERROR", "not_checked_in_today", 0))
            ELSE IF BelowMinimum(st)
            THEN Return(t, Res(t, "ERROR", "must_wait_minutes",
                            MIN_CHECKOUT_MINUTES - (st.elapsed \div SecondsPerMinute)))
            ELSE /\ th' = [th EXCEPT ![t].pc = "co_start"]
                 /\ result' = result

\* _process_check_in, lines 180-186: the guard on its own status read.
AfterStatusCI(t, st) ==
    /\ returned' = returned
    /\ last_processed' = last_processed
    /\ IF st.is_checked_in \/ st.has_incomplete_record
       THEN Return(t, Res(t, "ERROR", "previous_session", 0))
       ELSE /\ th' = [th EXCEPT ![t].pc = "ci_read"]
            /\ result' = result

\* _process_check_out, lines 251-263: the guards on its own status read.
AfterStatusCO(t, st) ==
    /\ returned' = returned
    /\ last_processed' = last_processed
    /\ IF ~st.is_checked_in
       THEN Return(t, Res(t, "ERROR", "not_checked_in", 0))
       ELSE IF BelowMinimum(st)
       THEN Return(t, Res(t, "ERROR", "before_minimum", st.elapsed \div SecondsPerMinute))
       ELSE /\ th' = [th EXCEPT ![t].pc = "co_lock", ![t].st = st]
            /\ result' = result

\* The manual page shows the status it read.
AfterStatusQuery(t, st) ==
    /\ returned' = returned
    /\ last_processed' = last_processed
    /\ Return(t, Res(t, "STATUS",
                     IF st.error THEN "error"
                     ELSE IF st.already_checked_in_today THEN "completed"
                     ELSE IF st.is_checked_in THEN "checked_in"
                     ELSE "no_record", 0))

\* The caller of get_current_status goes on with the status it got.
AfterStatus(t, st) ==
    IF th[t].ret = "pa" THEN AfterStatusPA(t, st)
    ELSE IF th[t].ret = "ci" THEN AfterStatusCI(t, st)
    ELSE IF th[t].ret = "co" THEN AfterStatusCO(t, st)
    ELSE AfterStatusQuery(t, st)

\* get_current_status, first half: today's date, then _ensure_attendance_file
\* finds the file and reads it, or finds none.
GsRead(t) ==
    /\ th[t].pc = "gs"
    /\ LET today == DateOf(now) IN
       IF ledger[today].state = "missing"
       THEN /\ th' = [th EXCEPT ![t].pc = "gs_create", ![t].gd = today]
            /\ UNCHANGED <<result, returned, last_processed>>
       ELSE AfterStatus(t, StatusOf(ledger[today], th[t].emp, now))
    /\ UNCHANGED <<now, ticks, calls, employees, ledger, lock, live, otherVars>>

\* _ensure_attendance_file, line 451: to_csv opens the missing file for
\* writing (the lock is not taken).
GsCreateBegin(t) ==
    /\ th[t].pc = "gs_create"
    /\ ledger' = [ledger EXCEPT ![th[t].gd] = Partial]
    /\ th' = [th EXCEPT ![t].pc = "gs_created",
                         ![t].wrote = @ \/ ledger[th[t].gd].rows # <<>>]
    /\ UNCHANGED <<now, ticks, calls, employees, lock, last_processed, result,
                   returned, live, otherVars>>

\* to_csv writes the header line of the empty frame at the start of the file
\* it opened and closes it: an empty ledger, unless another writer has filled
\* the file since it was opened (every ledger starts with that same line, so
\* the other writer's content stays).  get_current_status goes on with the
\* empty frame.
GsCreateEnd(t) ==
    /\ th[t].pc = "gs_created"
    /\ ledger' = [ledger EXCEPT ![th[t].gd] =
                     IF @.state = "ok" THEN @ ELSE File(<<>>)]
    /\ AfterStatus(t, NoStatus)
    /\ UNCHANGED <<now, ticks, calls, employees, lock, live, otherVars>>

\* take_attendance_page, lines 377-430: a frame is recognised as `label`, the
\* user confirms and presses Process, and the page calls
\* process_attendance([label], mode).  process_attendance, lines 65-95: the
\* time of the call, the registry lookup and the cooldown check.
CamProcess(label, mode) ==
    LET t == "cam"
        emp == EmployeeByName(label)
        since == now - last_processed[emp]
    IN
    /\ th[t].pc = "idle"
    /\ calls < MaxCalls
    /\ calls' = calls + 1
    /\ IF label = "Unknown" \/ emp = ""
       THEN /\ th' = th
            /\ result' = [NoResult EXCEPT !.by = t, !.origin = "camera",
                                          !.mode = mode, !.start = now]
       ELSE IF InCooldown(emp, now)
       THEN /\ th' = th
            /\ result' =
                  [status |-> "ERROR", msg |-> "cooldown",
                   n |-> WaitSeconds(since * MillisPerSecond), emp |-> emp,
                   mode |-> mode,
                   origin |-> "camera",
                   pre |-> StateOf(ledger[DateOf(now)], emp), by |-> t,
                   start |-> now, wrote |-> FALSE]
       ELSE /\ th' = [th EXCEPT ![t] =
                  [Idle EXCEPT !.pc = "gs", !.ret = "pa", !.origin = "camera",
                               !.emp = emp, !.mode = mode, !.t0 = now,
                               !.pre = StateOf(ledger[DateOf(now)], emp)]]
            /\ result' = result
    /\ UNCHANGED <<now, ticks, employees, ledger, lock, last_processed,
                   returned, live, otherVars>>

\* A variant of ManualAttendance without the registry test of line 288.
ManualAttendanceOfAnyone(emp, action) ==
    LET t == "adm" IN
    /\ th[t].pc = "idle"
    /\ calls < MaxCalls
    /\ calls' = calls + 1
    /\ th' = [th EXCEPT ![t] =
          [Idle EXCEPT !.pc = "gs", !.origin = "manual", !.emp = emp,
                       !.ret = IF action = "CHECK_IN" THEN "ci" ELSE "co",
                       !.mode = action, !.t0 = now, !.ct = now,
                       !.pre = StateOf(ledger[DateOf(now)], emp)]]
    /\ result' = result
    /\ UNCHANGED <<now, ticks, employees, ledger, lock, last_processed,
                   returned, live, otherVars>>

\* manual_attendance_page, line 503: manual_attendance(emp_id, action), which
\* answers an id the registry does not have with an ERROR (lines 288-289)
\* and else calls _process_check_in or _process_check_out; these start by
\* taking the time (lines 158 and 245).
ManualAttendance(emp, action) ==
    LET t == "adm" IN
    /\ th[t].pc = "idle"
    /\ calls < MaxCalls
    /\ calls' = calls + 1
    /\ IF emp \notin employees
       THEN /\ th' = th
            /\ result' = [NoResult EXCEPT !.status = "ERROR",
                                          !.msg = "employee_not_found",
                                          !.emp = emp, !.mode = action,
                                          !.origin = "manual", !.by = t,
                                          !.start = now]
       ELSE /\ th' = [th EXCEPT ![t] =
                  [Idle EXCEPT !.pc = "gs", !.origin = "manual", !.emp = emp,
                               !.ret = IF action = "CHECK_IN" THEN "ci" ELSE "co",
                               !.mode = action, !.t0 = now, !.ct = now,
                               !.pre = StateOf(ledger[DateOf(now)], emp)]]
            /\ result' = result
    /\ UNCHANGED <<now, ticks, employees, ledger, lock, last_processed,
                   returned, live, otherVars>>

\* manual_attendance_page, line 471: the page reads the status of the
\* selected employee.
StatusQuery(emp) ==
    LET t == "adm" IN
    /\ th[t].pc = "idle"
    /\ calls < MaxCalls
    /\ calls' = calls + 1
    /\ emp \in employees
    /\ th' = [th EXCEPT ![t] =
          [Idle EXCEPT !.pc = "gs", !.ret = "query", !.origin = "query",
                       !.emp = emp, !.mode = "STATUS", !.t0 = now,
                       !.pre = StateOf(ledger[DateOf(now)], emp)]]
    /\ result' = result
    /\ UNCHANGED <<now, ticks, employees, ledger, lock, last_processed,
                   returned, live, otherVars>>

\* _process_check_in called from process_attendance, line 158: the time of
\* the check-in.
CiStart(t) ==
    /\ th[t].pc = "ci_start"
    /\ th' = [th EXCEPT ![t].pc = "gs", ![t].ret = "ci", ![t].ct = now]
    /\ UNCHANGED <<now, ticks, calls, employees, ledger, lock, last_processed,
                   result, returned, live, otherVars>>

\* _process_check_out called from process_attendance, line 245: the time of
\* the check-out.
CoStart(t) ==
    /\ th[t].pc = "co_start"
    /\ th' = [th EXCEPT ![t].pc = "gs", ![t].ret = "co", ![t].ct = now]
    /\ UNCHANGED <<now, ticks, calls, employees, ledger, lock, last_processed,
                   result, returned, live, otherVars>>

\* _process_check_in, lines 190-198: the frame the new row will be added to
\* is read before the lock is taken; a file that cannot be parsed raises
\* inside the try block.
CiRead(t) ==
    LET file == ledger[DateOf(th[t].ct)] IN
    /\ th[t].pc = "ci_read"
    /\ IF file.state = "partial"
       THEN Return(t, Res(t, "ERROR", "failed_to_record", 0))
       ELSE /\ th' = [th EXCEPT ![t].pc = "ci_lock",
                                ![t].df = ReadCsv(file.rows)]
            /\ result' = result
    /\ UNCHANGED <<now, ticks, calls, employees, ledger, lock, last_processed,
                   returned, live, otherVars>>

\* _process_check_in, lines 214-220: the lock is taken and to_csv opens the
\* file for writing.
CiWriteBegin(t) ==
    /\ th[t].pc = "ci_lock"
    /\ lock = "free"
    /\ lock' = t
    /\ ledger' = [ledger EXCEPT ![DateOf(th[t].ct)] = Partial]
    /\ th' = [th EXCEPT ![t].pc = "ci_write",
                         ![t].wrote = @ \/ ledger[DateOf(th[t].ct)].rows # <<>>]
    /\ UNCHANGED <<now, ticks, calls, employees, last_processed, result,
                   returned, live, otherVars>>

\* The row a check-in adds (lines 201-211).
NewRecord(emp, ct) ==
    [emp |-> emp, check_in |-> TimeOf(ct), check_out |-> NoTime, total |-> 0]

\* A variant of CiWriteEnd that records the time of manual calls too.
CiWriteEndStampsManual(t) ==
    LET me == th[t] IN
    /\ me.pc = "ci_write"
    /\ ledger' = [ledger EXCEPT ![DateOf(me.ct)] =
                     File(Append(me.df, NewRecord(me.emp, me.ct)))]
    /\ lock' = "free"
    /\ Return(t, [Res(t, "SUCCESS", "checked_in", 0) EXCEPT !.wrote = TRUE])
    /\ returned' = returned \cup
          {[op |-> "in", emp |-> me.emp, date |-> DateOf(me.ct),
            check_in |-> TimeOf(me.ct), check_out |-> NoTime, by |-> t,
            origin |-> me.origin, start |-> me.t0]}
    /\ last_processed' = [last_processed EXCEPT ![me.emp] = me.t0]
    /\ UNCHANGED <<now, ticks, calls, employees, live, otherVars>>

\* _process_check_in, lines 219-241: the frame read earlier plus the new row
\* is the file's new content; the lock is released and SUCCESS returned.
\* process_attendance, line 116, then records the time of its call.
CiWriteEnd(t) ==
    LET me == th[t] IN
    /\ me.pc = "ci_write"
    /\ ledger' = [ledger EXCEPT ![DateOf(me.ct)] =
                     File(Append(me.df, NewRecord(me.emp, me.ct)))]
    /\ lock' = "free"
    /\ Return(t, [Res(t, "SUCCESS", "checked_in", 0) EXCEPT !.wrote = TRUE])
    /\ returned' = returned \cup
          {[op |-> "in", emp |-> me.emp, date |-> DateOf(me.ct),
            check_in |-> TimeOf(me.ct), check_out |-> NoTime, by |-> t,
            origin |-> me.origin, start |-> me.t0]}
    /\ last_processed' = IF me.origin = "camera"
                         THEN [last_processed EXCEPT ![me.emp] = me.t0]
                         ELSE last_processed
    /\ UNCHANGED <<now, ticks, calls, employees, live, otherVars>>

\* df.loc[record_index, ...] = ..., lines 277-278: the row at the index the
\* status read gave is updated; an index the frame does not have adds a row
\* whose other columns are empty, and the numeric id column turns to float.
UpdateRecord(df, idx, time, total) ==
    IF idx <= Len(df)
    THEN [df EXCEPT ![idx].check_out = time, ![idx].total = total]
    ELSE LET grown == Append(df, [emp |-> NaN, check_in |-> NoTime,
                                  check_out |-> time, total |-> total])
         IN  ReadCsv(grown)

\* A variant of CoLockRead whose lock stays taken when read_csv raises.
CoLockReadKeepsLock(t) ==
    LET me == th[t]
        file == ledger[DateOf(me.ct)]
        total == Hundredths(TimeOf(me.ct) - me.st.check_in_time)
    IN
    /\ me.pc = "co_lock"
    /\ lock = "free"
    /\ lock' = t
    /\ IF file.state # "ok"
       THEN /\ Return(t, Res(t, "RAISED", "read_csv", 0))
            /\ UNCHANGED ledger
       ELSE /\ th' = [th EXCEPT ![t].pc = "co_write",
                                ![t].wrote = @ \/ file.rows # <<>>,
                                ![t].df = UpdateRecord(ReadCsv(file.rows),
                                             me.st.record_index, TimeOf(me.ct), total)]
            /\ result' = result
            /\ ledger' = [ledger EXCEPT ![DateOf(me.ct)] = Partial]
    /\ UNCHANGED <<now, ticks, calls, employees, last_processed, returned, live, otherVars>>

\* _process_check_out, lines 267-279: the lock is taken, the file is read
\* again, the row is updated in memory and to_csv opens the file for writing.
\* A missing or unparsable file raises out of the call (there is no try
\* block); the with statement releases the lock.
CoLockRead(t) ==
    LET me == th[t]
        file == ledger[DateOf(me.ct)]
        total == Hundredths(TimeOf(me.ct) - me.st.check_in_time)
    IN
    /\ me.pc = "co_lock"
    /\ lock = "free"
    /\ IF file.state # "ok"
       THEN /\ Return(t, Res(t, "RAISED", "read_csv", 0))
            /\ UNCHANGED <<ledger, lock>>
       ELSE /\ th' = [th EXCEPT ![t].pc = "co_write",
                                ![t].wrote = @ \/ file.rows # <<>>,
                                ![t].df = UpdateRecord(ReadCsv(file.rows),
                                             me.st.record_index, TimeOf(me.ct), total)]
            /\ result' = result
            /\ ledger' = [ledger EXCEPT ![DateOf(me.ct)] = Partial]
            /\ lock' = t
    /\ UNCHANGED <<now, ticks, calls, employees, last_processed, returned, live, otherVars>>

\* _process_check_out, lines 279-284: the updated frame is the file's new
\* content; the lock is released and SUCCESS returned.  process_attendance,
\* line 143, then records the time of its call.
CoWriteEnd(t) ==
    LET me == th[t] IN
    /\ me.pc = "co_write"
    /\ ledger' = [ledger EXCEPT ![DateOf(me.ct)] = File(me.df)]
    /\ lock' = "free"
    /\ Return(t, [Res(t, "SUCCESS", "checked_out",
                       me.st.elapsed \div SecondsPerMinute)
                      EXCEPT !.wrote = me.wrote \/ File(me.df) # File(<<>>)])
    /\ returned' = returned \cup
          {[op |-> "out", emp |-> me.emp, date |-> DateOf(me.ct),
            check_in |-> me.st.check_in_time, check_out |-> TimeOf(me.ct),
            by |-> t, origin |-> me.origin, start |-> me.t0]}
    /\ last_processed' = IF me.origin = "camera"
                         THEN [last_processed EXCEPT ![me.emp] = me.t0]
                         ELSE last_processed
    /\ UNCHANGED <<now, ticks, calls, employees, live, otherVars>>

\* One step of a call in progress.
Step(t) ==
    \/ GsRead(t)
    \/ GsCreateBegin(t)
    \/ GsCreateEnd(t)
    \/ CiStart(t)
    \/ CoStart(t)
    \/ CiRead(t)
    \/ CiWriteBegin(t)
    \/ CiWriteEnd(t)
    \/ CoLockRead(t)
    \/ CoWriteEnd(t)

\* A page request arrives.
Request ==
    \/ \E label \in Labels, mode \in Modes : CamProcess(label, mode)
    \/ \E emp \in EmpIds, action \in Modes : ManualAttendance(emp, action)
    \/ \E emp \in EmpIds : StatusQuery(emp)

AllIdle == \A t \in Threads : th[t].pc = "idle"

\* The camera page and the manual page served concurrently, each by its own
\* thread, with no assumption on how long a step takes; the clock advances
\* by whole hours.
Next ==
    \/ ticks < MaxHours /\ Tick(SecondsPerHour)
    \/ Request
    \/ \E t \in Threads : Step(t)

Spec == Init /\ [][Next]_vars

\* One request at a time: a request arrives when no call is in progress; the
\* clock may advance between any two steps.
SeqNext ==
    \/ \E d \in TickSteps : Tick(d)
    \/ AllIdle /\ calls < SeqCalls /\ Request
    \/ \E t \in Threads : Step(t)

SeqSpec == Init /\ [][SeqNext]_vars

\* ------------------------------------------------------------------ claims
Today == DateOf(now)

\* C1: for every employee and date, the ledger of that date has at most one
\* row of the employee with an empty Check_Out.
C1_AtMostOneOpenRecord ==
    \A d \in Dates, e \in EmpIds : Cardinality(OpenRows(ledger[d], e)) <= 1

\* C2: a CHECK_IN or CHECK_OUT requested while the ledger of the day holds a
\* closed row of the employee never returns SUCCESS.
C2_ClosedBlocksFurtherCalls ==
    (result.pre = "Closed" /\ result.mode \in Modes) => result.status # "SUCCESS"

\* C3: while a call has decided from its status read and has not yet written,
\* no step of another call changes the ledger of that day.
Decided == {"ci_read", "ci_lock", "co_lock"}
C3_DecideAndMutateAtomic ==
    [][\A t \in Threads :
         (th[t].pc \in Decided /\ th'[t] = th[t])
            => ledger'[DateOf(th[t].ct)] = ledger[DateOf(th[t].ct)]]_vars

\* C4: when no call is in progress, every check-in that returned SUCCESS has
\* its row in the ledger of its date, and every check-out that returned
\* SUCCESS has a row of its employee with Check_Out set.
RowOf(r) ==
    {i \in 1 .. Len(ledger[r.date].rows) :
        /\ OwnedBy(ledger[r.date].rows[i], r.emp)
        /\ ledger[r.date].rows[i].check_in = r.check_in}
C4_NoRecordLost ==
    AllIdle =>
      \A r \in returned :
        /\ RowOf(r) # {}
        /\ r.op = "out" =>
              \E i \in RowOf(r) : ledger[r.date].rows[i].check_out # NoTime

\* C5: a CHECK_OUT returns SUCCESS only for an employee with an open record
\* of the day and an elapsed time of at least 60 minutes at its status read;
\* a CHECK_OUT rejected for the minimum time is an ERROR and, until the next
\* request arrives, the record is still open.
MinimumRejections == {"must_wait_minutes", "before_minimum"}
C5_CheckOutOnlyAfterMinimum ==
    result.mode = "CHECK_OUT" =>
      /\ result.status = "SUCCESS" =>
            /\ result.pre = "CheckedIn"
            /\ result.n >= MIN_CHECKOUT_MINUTES
      /\ result.msg \in MinimumRejections =>
            /\ result.status = "ERROR"
            /\ result.msg = "before_minimum" => result.n < MIN_CHECKOUT_MINUTES
            /\ result.msg = "must_wait_minutes" => result.n > 0
            /\ AllIdle =>
                  /\ OpenRows(ledger[DateOf(result.start)], result.emp) # {}
                  /\ ClosedRows(ledger[DateOf(result.start)], result.emp) = {}
C5_Witness ==
    /\ result.mode = "CHECK_OUT"
    /\ result.status = "SUCCESS"
    /\ result.n = MIN_CHECKOUT_MINUTES
    /\ \E i \in ClosedRows(ledger[Today], result.emp) :
          ledger[Today].rows[i].total = 100

\* C6 as stated: a call for an employee made less than 60 seconds after
\* another call for the same employee that returned SUCCESS is rejected with
\* the cooldown message.
Abs(x) == IF x < 0 THEN 0 - x ELSE x
C7_LivenessBeforeAttendance ==
    (th["cam"].pc # "idle" \/ \E r \in returned : r.origin = "camera") => live

\* C8: at most one CHECK_OUT returns SUCCESS per open record, and when no
\* call is in progress a closed record still has the Check_Out its check-out
\* gave it.
C8_ClosedOnce ==
    /\ \A r1, r2 \in returned :
          (r1.op = "out" /\ r2.op = "out" /\ r1.emp = r2.emp
             /\ r1.date = r2.date /\ r1.check_in = r2.check_in) => r1 = r2
    /\ AllIdle =>
          \A r \in returned :
            r.op = "out" =>
              \E i \in RowOf(r) : ledger[r.date].rows[i].check_out = r.check_out

\* C9: for every employee and date, the ledger of that date has at most one
\* row of the employee with Check_Out set.
C9_AtMostOneClosedRecord ==
    \A d \in Dates, e \in EmpIds : Cardinality(ClosedRows(ledger[d], e)) <= 1

\* C10: a write of a ledger file is in progress only in the thread that
\* holds the lock, so at most one is in progress at a time.
Writing == {"gs_created", "ci_write", "co_write"}
C10_WritesUnderLock ==
    \A t \in Threads : th[t].pc \in Writing => lock = t

\* C11: every process_attendance and manual_attendance call that returns a
\* result returns one with status SUCCESS, INFO or ERROR (nothing is raised),
\* and when a call has returned SUCCESS and no call is in progress, the
\* ledger of its date holds a row of its employee, closed if it was a
\* check-out.
Structured == {"SUCCESS", "INFO", "ERROR"}
C11_StructuredResults ==
    /\ (result.mode \in Modes /\ result.status # "NONE")
          => result.status \in Structured
    /\ (AllIdle /\ result.status = "SUCCESS") =>
          \E i \in 1 .. Len(ledger[DateOf(result.start)].rows) :
             LET row == ledger[DateOf(result.start)].rows[i] IN
             /\ OwnedBy(row, result.emp)
             /\ result.msg = "checked_out" => row.check_out # NoTime

\* C12: in every ledger row with a Check_In and a Check_Out, Total_Hours is
\* the hundredth of an hour nearest to the time from the row's Check_In to
\* the row's Check_Out (36 seconds are a hundredth of an hour).
C12_TotalHoursFromRow ==
    \A d \in Dates : \A i \in 1 .. Len(ledger[d].rows) :
       LET row == ledger[d].rows[i]
           secs == row.check_out - row.check_in
       IN  (row.check_out # NoTime /\ row.check_in # NoTime) =>
              /\ 36 * row.total - secs <= 18
              /\ secs - 36 * row.total <= 18

\* ------------------------------------------------------ liveness detector
\* Seconds of the detector's behaviours, length of a low-EAR streak and
\* blinks counted.
MaxTime == 6
MaxCounter == 4
MaxBlinks == 2

\* The eye aspect ratio is kept in hundredths: 0.3 is 30.
EYE_AR_THRESH == 30
EYE_AR_CONSEC_FRAMES == 3
\* time_since_last_blink < 3.0
LIVE_WINDOW == 3

\* A face the detector finds in a frame: the eye aspect ratio its landmarks
\* give (eyes closed, exactly at the threshold, eyes open), or landmarks that
\* cannot be taken (the predictor raises).
FaceInputs ==
    [ear : {20, 30, 40}, raises : {FALSE}] \cup [ear : {30}, raises : {TRUE}]
\* A frame with no face, one face or two.
FrameInputs ==
    {<<>>} \cup {<<f>> : f \in FaceInputs}
           \cup {<<f, g>> : f \in FaceInputs, g \in FaceInputs}

\* The detector's fields together with what it has seen since its reset.
Detector ==
    [counter |-> counter, total_blinks |-> total_blinks,
     last_blink_time |-> last_blink_time, blink_at |-> since_reset.blink_at,
     frames |-> since_reset.frames]

\* The history counter of faces processed stops at one more than a blink
\* needs.
Seen(n) == IF n > EYE_AR_CONSEC_FRAMES THEN n ELSE n + 1

\* A variant of DetectBlink that asks for a streak longer than
\* EYE_AR_CONSEC_FRAMES.
DetectBlinkAfterLonger(d, ear, t) ==
    LET e == [d EXCEPT !.frames = Seen(@)] IN
    IF ear < EYE_AR_THRESH
    THEN [e EXCEPT !.counter = @ + 1]
    ELSE IF e.counter > EYE_AR_CONSEC_FRAMES
         THEN [e EXCEPT !.total_blinks = @ + 1, !.last_blink_time = t,
                        !.blink_at = t, !.counter = 0]
         ELSE [e EXCEPT !.counter = 0]

\* detect_blink, lines 66-72, at time t.
DetectBlink(d, ear, t) ==
    LET e == [d EXCEPT !.frames = Seen(@)] IN
    IF ear < EYE_AR_THRESH
    THEN [e EXCEPT !.counter = @ + 1]
    ELSE IF e.counter >= EYE_AR_CONSEC_FRAMES
         THEN [e EXCEPT !.total_blinks = @ + 1, !.last_blink_time = t,
                        !.blink_at = t, !.counter = 0]
         ELSE [e EXCEPT !.counter = 0]

\* The side of the threshold an eye aspect ratio lies on (line 66).
SideOf(ear) == IF ear < EYE_AR_THRESH THEN "low" ELSE "high"

\* A variant of IsLive that asks for no blink.
IsLiveWithoutBlink(d, t) == t - d.last_blink_time < LIVE_WINDOW

\* A variant of IsLive without the three-second window.
IsLiveAnyBlink(d, t) == d.total_blinks > 0

\* check_liveness, lines 103 and 112.
IsLive(d, t) == d.total_blinks > 0 /\ t - d.last_blink_time < LIVE_WINDOW

\* A variant of NoFace that answers with the blink prompt.
NoFacePrompt(t) ==
    [is_live |-> FALSE, message |-> "Please blink naturally", at |-> t,
     faces |-> 0, raised |-> FALSE, blink_at |-> NoTime, frames |-> 0,
     ears |-> <<>>, sides |-> {}]

\* check_liveness, lines 84-88: the result when the frame has no face.
NoFace(t) ==
    [is_live |-> FALSE, message |-> "No face detected", at |-> t, faces |-> 0,
     raised |-> FALSE, blink_at |-> NoTime, frames |-> 0, ears |-> <<>>,
     sides |-> {}]

\* check_liveness, lines 90-130: the faces of the frame one after the other,
\* each through detect_blink; the result is that of the last face.
RECURSIVE CheckFaces(_, _, _, _, _)
CheckFaces(frame, i, d, res, t) ==
    IF i > Len(frame) THEN [d |-> d, res |-> res]
    ELSE IF frame[i].raises
    THEN CheckFaces(frame, i + 1, d,
            [res EXCEPT !.is_live = FALSE,
                        !.message = "Error in liveness detection",
                        !.raised = TRUE, !.blink_at = d.blink_at,
                        !.frames = d.frames], t)
    ELSE LET e == DetectBlink(d, frame[i].ear, t) IN
         CheckFaces(frame, i + 1, e,
            [res EXCEPT !.is_live = IsLive(e, t),
                        !.message = IF IsLive(e, t) THEN "Live face detected"
                                    ELSE "Please blink naturally",
                        !.raised = FALSE, !.blink_at = e.blink_at,
                        !.frames = e.frames,
                        !.ears = Append(@, frame[i].ear)], t)

\* check_liveness(frame).
CheckLiveness(frame) ==
    \E out \in {CheckFaces(frame, 1, Detector,
                           [NoFace(now) EXCEPT !.faces = Len(frame),
                                               !.blink_at = since_reset.blink_at,
                                               !.frames = since_reset.frames], now)} :
    \E seen \in {since_reset.sides
                   \cup {SideOf(out.res.ears[i]) : i \in 1 .. Len(out.res.ears)}} :
    /\ out.d.counter <= MaxCounter
    /\ out.d.total_blinks <= MaxBlinks
    /\ counter' = out.d.counter
    /\ total_blinks' = out.d.total_blinks
    /\ last_blink_time' = out.d.last_blink_time
    /\ since_reset' = [since_reset EXCEPT !.blink_at = out.d.blink_at,
                                          !.frames = out.d.frames,
                                          !.sides = seen]
    /\ verdict' = [out.res EXCEPT !.sides = seen]
    /\ live' = out.res.is_live
    /\ UNCHANGED <<now, attendanceVars, faceVars, reportVars, cooldownVars,
                   authVars>>

\* A variant of ResetFields that keeps the blink count.
ResetFieldsKeepBlinks(d, t) == [d EXCEPT !.counter = 0, !.last_blink_time = t]

\* reset, lines 136-138.
ResetFields(d, t) ==
    [d EXCEPT !.counter = 0, !.total_blinks = 0, !.last_blink_time = t]

\* reset().
Reset ==
    LET d == ResetFields(Detector, now) IN
    /\ counter' = d.counter
    /\ total_blinks' = d.total_blinks
    /\ last_blink_time' = d.last_blink_time
    /\ since_reset' = [NothingSeen EXCEPT !.was_live = IsLive(Detector, now)]
    /\ UNCHANGED <<now, live, verdict, attendanceVars, faceVars, reportVars,
                   cooldownVars, authVars>>

\* A second passes.
Second ==
    /\ now < MaxTime
    /\ now' = now + 1
    /\ UNCHANGED <<live, attendanceVars, detectorVars, faceVars, reportVars,
                   cooldownVars, authVars>>

\* One detector fed with frames and reset, as seconds pass.
LiveNext ==
    \/ \E frame \in FrameInputs : CheckLiveness(frame)
    \/ Reset
    \/ Second

LiveSpec == Init /\ [][LiveNext]_vars

C14_NotLiveAfterReset ==
    /\ verdict.is_live => verdict.frames > EYE_AR_CONSEC_FRAMES
    /\ since_reset.frames = 0 => (counter = 0 /\ total_blinks = 0)
C14_Witness ==
    /\ since_reset.was_live
    /\ since_reset.frames > 0
    /\ verdict.frames = since_reset.frames
    /\ verdict.at - last_blink_time < LIVE_WINDOW
    /\ ~verdict.is_live
    /\ verdict.message = "Please blink naturally"

\* ============================================================ face gallery
\* Files in known_faces/, entries of the gallery and entries of the registry.
MaxFiles == 3
MaxGallery == 3
MaxRegistry == 3

\* compare_faces(..., tolerance=0.6), in tenths.
TOLERANCE == 6

FaceNames == {"Alice", "Bob"}
\* What cv2.imread makes of an uploaded photo: nothing, or an image with no
\* face, one face or two.
UploadImages ==
    {NoImage} \cup {[readable |-> TRUE, faces |-> f] : f \in {<<>>, <<4>>, <<0, 8>>}}
\* Files somebody copies into known_faces/: a photo and a text file.
PlacedFiles ==
    {ImageFile("Alice", "png", <<4>>), ImageFile("README", "txt", <<>>)}
\* Frames handed to process_frame: None, a two-dimensional array, or a BGR
\* image with its faces, whose detection may raise.
Frames ==
    {[kind |-> k, faces |-> <<>>, detect_raises |-> FALSE] : k \in {"none", "gray"}}
      \cup {[kind |-> "bgr", faces |-> f, detect_raises |-> r] :
               f \in {<<>>, <<4>>, <<0, 20>>}, r \in BOOLEAN}

Gallery == [names |-> known_face_names, encodings |-> known_face_encodings]
EmptyGallery == [names |-> <<>>, encodings |-> <<>>]

\* filename.endswith((".jpg", ".jpeg", ".png"))
IsImageName(file) == file.ext \in {"jpg", "jpeg", "png"}

\* add_known_face: the first embedding of the image, under the given name.
AddKnownFace(g, file, name) ==
    IF ~file.readable \/ Len(file.faces) = 0
    THEN [ok |-> FALSE, g |-> g]
    ELSE [ok |-> TRUE,
          g |-> [names |-> Append(g.names, name),
                 encodings |-> Append(g.encodings, Head(file.faces))]]

\* The lists load_known_faces starts from: the old entries are kept.
LoadStartKeep(g) == g
\* The lists load_known_faces starts from.
LoadStart(g) == EmptyGallery

\* The loop of load_known_faces over os.listdir, from the i-th file on.
RECURSIVE LoadFrom(_, _, _)
LoadFrom(dir, i, g) ==
    IF i > Len(dir) THEN g
    ELSE IF IsImageName(dir[i])
         THEN LoadFrom(dir, i + 1, AddKnownFace(g, dir[i], dir[i].stem).g)
         ELSE LoadFrom(dir, i + 1, g)

LoadKnownFaces ==
    LET g == LoadFrom(known_faces_dir, 1, LoadStart(Gallery)) IN
    /\ known_face_names' = g.names
    /\ known_face_encodings' = g.encodings
    /\ face_result' = [NoCall EXCEPT !.op = "load", !.ok = TRUE]
    /\ UNCHANGED <<now, live, attendanceVars, sideVars, known_faces_dir,
                   registry>>

\* The directory after a file is written: an existing file of that name is
\* replaced where it stands, a new one turns up at position pos of the listing.
InsertAt(dir, pos, file) ==
    SubSeq(dir, 1, pos) \o <<file>> \o SubSeq(dir, pos + 1, Len(dir))
SameName(f, g) == f.stem = g.stem /\ f.ext = g.ext
Written(dir, pos, file) ==
    IF \E i \in 1 .. Len(dir) : SameName(dir[i], file)
    THEN [i \in 1 .. Len(dir) |-> IF SameName(dir[i], file) THEN file ELSE dir[i]]
    ELSE InsertAt(dir, pos, file)
Positions(dir, file) ==
    IF \E i \in 1 .. Len(dir) : SameName(dir[i], file) THEN {0} ELSE 0 .. Len(dir)

\* register_new_face accepts a photo with at least one face.
AtLeastOne(n) == n >= 1
\* register_new_face accepts a photo with exactly one face.
ExactlyOne(n) == n = 1

\* What face_recognition finds in the JPEG written from the photo: the face
\* of the photo, or nothing after the lossy encoding.
SavedFaces(image) == {image.faces, <<>>}

RegisterNewFace(image, name) ==
    LET call == [NoCall EXCEPT !.op = "register", !.arg = name, !.image = image] IN
    IF ~image.readable \/ ~ExactlyOne(Len(image.faces))
    THEN /\ face_result' = call
         /\ UNCHANGED <<now, live, attendanceVars, sideVars, known_faces_dir,
                        known_face_encodings, known_face_names, registry>>
    ELSE \E faces \in SavedFaces(image) :
            LET file == ImageFile(name, "jpg", faces)
                added == AddKnownFace(Gallery, file, name)
            IN  \E pos \in Positions(known_faces_dir, file) :
                   /\ Len(Written(known_faces_dir, pos, file)) <= MaxFiles
                   /\ Len(added.g.names) <= MaxGallery
                   /\ known_faces_dir' = Written(known_faces_dir, pos, file)
                   /\ known_face_names' = added.g.names
                   /\ known_face_encodings' = added.g.encodings
                   /\ face_result' = [call EXCEPT !.ok = added.ok]
                   /\ UNCHANGED <<now, live, attendanceVars, sideVars, registry>>

\* A file is copied into known_faces/.
PlaceFile(file) ==
    /\ \A i \in 1 .. Len(known_faces_dir) : ~SameName(known_faces_dir[i], file)
    /\ Len(known_faces_dir) < MaxFiles
    /\ \E pos \in 0 .. Len(known_faces_dir) :
          known_faces_dir' = InsertAt(known_faces_dir, pos, file)
    /\ face_result' = [NoCall EXCEPT !.op = "place", !.arg = file.stem]
    /\ UNCHANGED <<now, live, attendanceVars, sideVars, known_face_encodings,
                   known_face_names, registry>>

\* face_distance(known, probe) <= tolerance
Within(a, b) == Abs(a - b) <= TOLERANCE
Matches(encodings, e) == [j \in 1 .. Len(encodings) |-> Within(encodings[j], e)]
\* The entry nearest to the probe among those within tolerance, 0 when none.
ClosestMatch(encodings, e) ==
    LET matches == Matches(encodings, e)
        hits == {j \in 1 .. Len(encodings) : matches[j]}
    IN  IF hits = {} THEN 0
        ELSE CHOOSE j \in hits :
                \A k \in hits :
                   \/ Abs(encodings[j] - e) < Abs(encodings[k] - e)
                   \/ Abs(encodings[j] - e) = Abs(encodings[k] - e) /\ j <= k
\* matches.index(True), 0 when True is not in matches.
FirstMatch(encodings, e) ==
    LET matches == Matches(encodings, e)
        hits == {j \in 1 .. Len(encodings) : matches[j]}
    IN  IF hits = {} THEN 0
        ELSE CHOOSE j \in hits : \A k \in hits : j <= k
LabelOf(e) ==
    LET first_match_index == FirstMatch(known_face_encodings, e) IN
    IF first_match_index = 0 THEN "Unknown"
    ELSE known_face_names[first_match_index]

\* process_frame: ValueError for None and for an array that is not
\* height x width x 3; the frame with no labels when detection raises;
\* otherwise one label per face.
ProcessFrame(frame) ==
    LET call == [NoCall EXCEPT !.op = "frame", !.frame = frame] IN
    /\ face_result' =
          IF frame.kind \in {"none", "gray"} THEN [call EXCEPT !.raised = TRUE]
          ELSE IF frame.detect_raises THEN [call EXCEPT !.ok = TRUE]
          ELSE [call EXCEPT !.ok = TRUE,
                            !.labels = [i \in 1 .. Len(frame.faces) |->
                                           LabelOf(frame.faces[i])]]
    /\ UNCHANGED <<now, live, attendanceVars, sideVars, known_faces_dir,
                   known_face_encodings, known_face_names, registry>>

\* ----------------------------------------------------------------- registry
NewIds == EmpIds \cup {"E2"}
Registered(emp_id) == \E i \in 1 .. Len(registry) : registry[i].emp_id = emp_id
IdsOf(reg) == {reg[i].emp_id : i \in 1 .. Len(reg)}

AddEmployee(emp_id, name) ==
    LET call == [NoCall EXCEPT !.op = "add", !.arg = name, !.emp_id = emp_id] IN
    IF Registered(emp_id)
    THEN /\ face_result' = call
         /\ UNCHANGED <<now, live, attendanceVars, sideVars, known_faces_dir,
                        known_face_encodings, known_face_names, registry>>
    ELSE /\ Len(registry) < MaxRegistry
         /\ registry' = Append(registry, [emp_id |-> emp_id, name |-> name])
         /\ employees' = IdsOf(registry')
         /\ face_result' = [call EXCEPT !.ok = TRUE]
         /\ UNCHANGED <<now, live, ticks, calls, ledger, lock, last_processed, th,
                        result, returned, sideVars, known_faces_dir,
                        known_face_encodings, known_face_names>>

\* remove_employee: the entry goes, and with it known_faces/<name>.jpg.
RemoveEmployee(emp_id) ==
    LET call == [NoCall EXCEPT !.op = "remove", !.emp_id = emp_id] IN
    IF ~Registered(emp_id)
    THEN /\ face_result' = call
         /\ UNCHANGED <<now, live, attendanceVars, sideVars, known_faces_dir,
                        known_face_encodings, known_face_names, registry>>
    ELSE LET i == CHOOSE k \in 1 .. Len(registry) : registry[k].emp_id = emp_id
             employee_name == registry[i].name
             IsFaceImage(file) == file.stem = employee_name /\ file.ext = "jpg"
         IN  /\ registry' = SubSeq(registry, 1, i - 1)
                              \o SubSeq(registry, i + 1, Len(registry))
             /\ employees' = IdsOf(registry')
             /\ known_faces_dir' = SelectSeq(known_faces_dir,
                                             LAMBDA file : ~IsFaceImage(file))
             /\ face_result' = [call EXCEPT !.ok = TRUE, !.arg = employee_name]
             /\ UNCHANGED <<now, live, ticks, calls, ledger, lock, last_processed,
                            th, result, returned, sideVars,
                            known_face_encodings, known_face_names>>

\* get_employee_by_name: the first entry of that name in the dict's order.
GetEmployeeByName(name) ==
    LET hits == {i \in 1 .. Len(registry) : registry[i].name = name}
        call == [NoCall EXCEPT !.op = "lookup", !.arg = name]
    IN  /\ face_result' =
              IF hits = {} THEN call
              ELSE [call EXCEPT !.ok = TRUE,
                      !.emp_id = registry[CHOOSE i \in hits :
                                            \A k \in hits : i <= k].emp_id]
        /\ UNCHANGED <<now, live, attendanceVars, sideVars, known_faces_dir,
                       known_face_encodings, known_face_names, registry>>

\* The gallery: photos registered, files copied, employees removed, the
\* gallery reloaded and frames recognised, in any order.
FaceNext ==
    \/ LoadKnownFaces
    \/ \E image \in UploadImages, name \in FaceNames : RegisterNewFace(image, name)
    \/ \E file \in PlacedFiles : PlaceFile(file)
    \/ \E frame \in Frames : ProcessFrame(frame)
    \/ \E emp_id \in NewIds : RemoveEmployee(emp_id)

FaceSpec == Init /\ [][FaceNext]_vars

\* The registry: employees added, removed and looked up by name.
RegNext ==
    \/ \E emp_id \in NewIds, name \in FaceNames : AddEmployee(emp_id, name)
    \/ \E emp_id \in NewIds : RemoveEmployee(emp_id)
    \/ \E name \in FaceNames : GetEmployeeByName(name)

RegSpec == Init /\ [][RegNext]_vars

\* C15: a register_new_face call that succeeds was given a readable photo
\* with exactly one face and appends that face under the given name to the
\* gallery, with no reload; a call given a photo with no face or with two or
\* more returns False and leaves the gallery as it was.
C15_RegisterExactlyOneFace ==
    [][face_result'.op = "register" =>
         LET image == face_result'.image
             name == face_result'.arg
         IN  /\ face_result'.ok =>
                   /\ image.readable
                   /\ Len(image.faces) = 1
                   /\ known_face_names' = Append(known_face_names, name)
                   /\ known_face_encodings' =
                         Append(known_face_encodings, image.faces[1])
                   /\ \E j \in 1 .. Len(known_face_encodings') :
                         Within(known_face_encodings'[j], image.faces[1])
             /\ Len(image.faces) # 1 =>
                   /\ ~face_result'.ok
                   /\ UNCHANGED <<known_face_names, known_face_encodings>>]_vars
C15_Witness ==
    /\ face_result.op = "register"
    /\ face_result.ok
    /\ Len(face_result.image.faces) = 1
    /\ Len(known_face_names) > 0
    /\ known_face_names[Len(known_face_names)] = face_result.arg
    /\ known_face_encodings[Len(known_face_encodings)] = face_result.image.faces[1]

\* C16: no two entries of the gallery carry the same identity name.
C16_OneEmbeddingPerName ==
    \A i, j \in 1 .. Len(known_face_names) :
       i # j => known_face_names[i] # known_face_names[j]

\* C17: right after load_known_faces the gallery is, in the order of the
\* listing, one entry for each image file of the directory that yields an
\* embedding, named after the file and holding its first embedding, and
\* nothing else; a second load_known_faces right after the first leaves the
\* gallery as it is.
ValidImages(dir) ==
    {i \in 1 .. Len(dir) :
        IsImageName(dir[i]) /\ dir[i].readable /\ Len(dir[i].faces) > 0}
C17_LoadReplacesGallery ==
    /\ [](face_result.op = "load" =>
            LET valid == ValidImages(known_faces_dir) IN
            /\ Len(known_face_names) = Cardinality(valid)
            /\ Len(known_face_encodings) = Cardinality(valid)
            /\ \A i \in valid :
                  LET j == Cardinality({k \in valid : k <= i}) IN
                  /\ known_face_names[j] = known_faces_dir[i].stem
                  /\ known_face_encodings[j] = known_faces_dir[i].faces[1])
    /\ [][(face_result.op = "load" /\ face_result'.op = "load") =>
             UNCHANGED <<known_face_names, known_face_encodings>>]_vars
C17_Witness ==
    /\ face_result.op = "load"
    /\ Len(known_faces_dir) > Len(known_face_names)
    /\ Len(known_face_names) = 2
    /\ \A j \in 1 .. Len(known_face_names) : known_face_names[j] # "Bob"

\* C18: the label process_frame gives a face is the name of the first
\* gallery entry, in insertion order, within tolerance 0.6 of the face's
\* embedding, and "Unknown" when no entry is.
C18_FirstMatchWithinTolerance ==
    (face_result.op = "frame" /\ face_result.frame.kind = "bgr"
       /\ ~face_result.frame.detect_raises) =>
       /\ Len(face_result.labels) = Len(face_result.frame.faces)
       /\ \A i \in 1 .. Len(face_result.labels) :
             LET e == face_result.frame.faces[i]
                 hits == {j \in 1 .. Len(known_face_encodings) :
                             Abs(known_face_encodings[j] - e) <= TOLERANCE}
             IN  IF hits = {}
                 THEN face_result.labels[i] = "Unknown"
                 ELSE \E j \in hits :
                         /\ \A k \in hits : j <= k
                         /\ face_result.labels[i] = known_face_names[j]
C18_Witness ==
    /\ face_result.op = "frame"
    /\ \E i \in 1 .. Len(face_result.labels) :
       \E j, k \in 1 .. Len(known_face_encodings) :
          LET e == face_result.frame.faces[i] IN
          /\ j < k
          /\ face_result.labels[i] = known_face_names[j]
          /\ known_face_names[k] # known_face_names[j]
          /\ Abs(known_face_encodings[k] - e) < Abs(known_face_encodings[j] - e)
    /\ \E i \in 1 .. Len(face_result.labels) : face_result.labels[i] = "Unknown"

\* C19: process_frame raises nothing, and for a malformed frame or a
\* detection that fails it returns an empty label list.
C19_ProcessFrameNeverRaises ==
    face_result.op = "frame" =>
       /\ ~face_result.raised
       /\ (face_result.frame.kind # "bgr" \/ face_result.frame.detect_raises)
             => (face_result.ok /\ face_result.labels = <<>>)

\* C20: no two entries of the registry carry the same name.
C20_UniqueRegistryNames ==
    \A i, j \in 1 .. Len(registry) :
       i # j => registry[i].name # registry[j].name

\* ========================================================== records pages
\* Requests of a behaviour of the records pages.
RecCalls == 3

\* manage_attendance_records_page, lines 827-833 and 840-848: the page calls
\* delete_todays_attendance() or delete_attendance_by_date(date_str) on the
\* attendance manager.  The class defines neither method, so the attribute
\* lookup raises AttributeError out of the page and no file is touched.
DeleteCall(name, d) ==
    /\ th["adm"].pc = "idle"
    /\ calls < MaxCalls
    /\ calls' = calls + 1
    /\ result' = [NoResult EXCEPT !.status = "RAISED", !.msg = name, !.n = d,
                                  !.mode = "DELETE", !.origin = "records",
                                  !.by = "adm", !.start = now]
    /\ UNCHANGED <<now, ticks, employees, ledger, lock, last_processed, th,
                   returned, live, otherVars>>

DeleteTodaysAttendance == DeleteCall("delete_todays_attendance", DateOf(now))
DeleteAttendanceByDate(d) == DeleteCall("delete_attendance_by_date", d)

\* The Department column of a row: the department the registry had for the
\* employee at check-in, empty in a row that df.loc added.
Departments == {"IT", "HR"}
DepartmentOf(row) ==
    IF row.emp = NaN THEN NaN
    ELSE IF OwnedBy(row, "E1") THEN "IT" ELSE "HR"

\* The frame read_csv makes of one ledger file, each row with the date of
\* its file and with whether its Employee_ID was read as text.
FrameOf(d) ==
    LET rows == ledger[d].rows IN
    [i \in 1 .. Len(rows) |->
        [date |-> d, row |-> ReadCsv(rows)[i], text |-> ColumnIsObject(rows)]]

\* get_all_attendance: the frames of all ledger files, concatenated.
RECURSIVE AllFrom(_)
AllFrom(d) ==
    IF d \notin Dates THEN <<>>
    ELSE (IF ledger[d].state = "ok" THEN FrameOf(d) ELSE <<>>) \o AllFrom(d + 1)
GetAllAttendance == AllFrom(0)
\* read_csv raises on a file that is being written.
Unreadable == \E d \in Dates : ledger[d].state = "partial"

\* if start_date and end_date: the rows whose Date lies in the range.
InRange(r, from, to) == from = NoTime \/ (from <= r.date /\ r.date <= to)
DateRanges == {<<NoTime, NoTime>>, <<0, 0>>, <<1, 1>>}

\* A report page calls the manager: the frame comes back, or the exception
\* of read_csv does; nothing is written.
ReportCall(op, arg, range, rows) ==
    /\ th["adm"].pc = "idle"
    /\ calls < MaxCalls
    /\ calls' = calls + 1
    /\ report' = [op |-> op, arg |-> arg, from |-> range[1], to |-> range[2],
                  rows |-> IF Unreadable THEN <<>> ELSE rows,
                  raised |-> Unreadable]
    /\ result' = [NoResult EXCEPT !.status = IF Unreadable THEN "RAISED" ELSE "DONE",
                                  !.msg = op, !.mode = "REPORT",
                                  !.origin = "reports", !.by = "adm",
                                  !.start = now]
    /\ UNCHANGED <<now, ticks, employees, ledger, lock, last_processed, th,
                   returned, live, detectorVars, faceVars, cooldownVars,
                   authVars>>

\* get_employee_report: df[df['Employee_ID'] == emp_id], a string compared
\* with what read_csv made of the column.
GetEmployeeReport(emp_id, range) ==
    ReportCall("employee", emp_id, range,
               SelectSeq(GetAllAttendance,
                         LAMBDA r : /\ r.text
                                    /\ r.row.emp = emp_id
                                    /\ InRange(r, range[1], range[2])))

\* get_department_report: df[df['Department'] == department].
GetDepartmentReport(department, range) ==
    ReportCall("department", department, range,
               SelectSeq(GetAllAttendance,
                         LAMBDA r : /\ DepartmentOf(r.row) = department
                                    /\ InRange(r, range[1], range[2])))

\* The pages used one request at a time, the records page and the report
\* pages among them.
\* A name and an id the registry does not have: a face of the gallery that
\* was never registered, an id typed by a caller.
Unregistered == {"Carol", "E9"}

RecordsRequest ==
    \/ Request
    \/ \E x \in Unregistered, mode \in Modes :
          CamProcess(x, mode) \/ ManualAttendance(x, mode)
    \/ DeleteTodaysAttendance
    \/ \E d \in Dates : DeleteAttendanceByDate(d)
    \/ \E e \in EmpIds, range \in DateRanges : GetEmployeeReport(e, range)
    \/ \E dep \in Departments, range \in DateRanges :
          GetDepartmentReport(dep, range)

RecordsNext ==
    \/ ticks < MaxHours /\ Tick(SecondsPerHour)
    \/ AllIdle /\ calls < RecCalls /\ RecordsRequest
    \/ \E t \in Threads : Step(t)

RecordsSpec == Init /\ [][RecordsNext]_vars

\* C21: once the deletion of the ledger of date D has been requested, no
\* record of D remains and every employee's state for D is NoRecord.
C21_LedgerDeleted ==
    (result.mode = "DELETE" /\ AllIdle) =>
       /\ ledger[result.n].rows = <<>>
       /\ \A e \in EmpIds : StateOf(ledger[result.n], e) = "NoRecord"

\* C25: a report call leaves the ledgers, the registry and the cooldown map
\* as they are, and the frame it returns when no date range is given holds
\* every row of the current day's ledger that belongs to the employee or the
\* department asked for, open rows included.
Asked(row) ==
    IF report.op = "employee" THEN OwnedBy(row, report.arg)
    ELSE DepartmentOf(row) = report.arg
C25_ReportsArePureReads ==
    /\ []((result.mode = "REPORT" /\ AllIdle /\ report.from = NoTime) =>
            /\ ~report.raised
            /\ LET d == DateOf(result.start) IN
               \A i \in 1 .. Len(ledger[d].rows) :
                  Asked(ledger[d].rows[i]) =>
                     \E j \in 1 .. Len(report.rows) :
                        /\ report.rows[j].date = d
                        /\ report.rows[j].row.check_in = ledger[d].rows[i].check_in
                        /\ report.rows[j].row.check_out = ledger[d].rows[i].check_out
                        /\ OwnedBy(report.rows[j].row, ledger[d].rows[i].emp)
                           \/ report.rows[j].row.emp = ledger[d].rows[i].emp)
    /\ [][(calls' # calls /\ result'.mode = "REPORT") =>
             UNCHANGED <<ledger, employees, registry, last_processed>>]_vars

\* C22: a CHECK_OUT rejected for the minimum time, from the camera page or
\* from the manual page, states 60 minus the whole minutes elapsed since the
\* check-in of the open record; the elapsed time is taken between the start
\* of the call and the present.
C22_RemainingMinutesStated ==
    (result.msg \in MinimumRejections /\ AllIdle) =>
       LET d == DateOf(result.start)
           open == OpenRows(ledger[d], result.emp)
       IN  \A i \in open :
              LET since == d * SecondsPerDay + ledger[d].rows[i].check_in IN
              Cardinality(open) = 1 =>
                 /\ MIN_CHECKOUT_MINUTES - ((now - since) \div SecondsPerMinute)
                       <= result.n
                 /\ result.n <= MIN_CHECKOUT_MINUTES
                                  - ((result.start - since) \div SecondsPerMinute)

\* ======================================================= cooldown message
\* Fractions of a second the clock can show, in milliseconds.
Fractions == {0, 1, 500, 999}
\* Times since the last processed event: within the cooldown, at its end,
\* and before the event (a clock set back).
SinceInputs ==
    {s * MillisPerSecond + f : s \in (0 - 1) .. COOLDOWN_SECONDS, f \in Fractions}

\* process_attendance, line 84: a call for the employee arrives ms
\* milliseconds after the time kept in last_processed.
CooldownElapsed(ms) ==
    /\ time_since_last' = ms
    /\ wait_seconds' = NoTime
    /\ UNCHANGED <<now, live, attendanceVars, detectorVars, faceVars, reportVars,
                   authVars>>

\* Lines 85-88: within the cooldown the call is rejected with the seconds to
\* wait.
CooldownMessage ==
    /\ wait_seconds = NoTime
    /\ time_since_last < COOLDOWN_SECONDS * MillisPerSecond
    /\ wait_seconds' = WaitSeconds(time_since_last)
    /\ UNCHANGED <<now, live, attendanceVars, detectorVars, faceVars, reportVars,
                   authVars, time_since_last>>

CooldownNext ==
    \/ \E ms \in SinceInputs : CooldownElapsed(ms)
    \/ CooldownMessage

CooldownSpec == Init /\ [][CooldownNext]_vars

\* C23: the seconds a cooldown rejection states are 60 minus the elapsed
\* time, rounded down to a whole number: the largest whole number of seconds
\* not above the time that remains.
C23_CooldownSecondsRoundedDown ==
    wait_seconds # NoTime =>
       LET remaining == COOLDOWN_SECONDS * MillisPerSecond - time_since_last IN
       /\ wait_seconds * MillisPerSecond <= remaining
       /\ remaining < (wait_seconds + 1) * MillisPerSecond
C23_Witness ==
    /\ wait_seconds = 49
    /\ time_since_last = 10 * MillisPerSecond + 500

\* ============================================== duplicate check-in (C24)
\* C24: a CHECK_IN for an employee who has an open record today, the
\* cooldown over, is a no-op: no step of the call changes a ledger and the
\* call returns an INFO result.
C24_DuplicateCheckInIsNoOp ==
    [][\A t \in Threads :
          (/\ th[t].pc # "idle"
           /\ th[t].mode = "CHECK_IN"
           /\ th[t].pre = "CheckedIn"
           /\ th'[t] # th[t])
          => /\ ledger' = ledger
             /\ th'[t].pc = "idle" => result'.status = "INFO"]_vars

\* ============================================ rejections change nothing
\* C26: a process_attendance or manual_attendance request that returns ERROR
\* or INFO has changed no row of any ledger, and the cooldown map changes
\* only in the step that returns SUCCESS.
C26_RejectionsChangeNothing ==
    /\ []((result.status \in {"ERROR", "INFO"} /\ result.mode \in Modes)
            => ~result.wrote)
    /\ [][last_processed' # last_processed => result'.status = "SUCCESS"]_vars

\* ================================================ what a check-out writes
\* C27: the frame a check-out of employee E writes back has the rows of the
\* file it read under the lock, in the same number, and differs from them
\* only in Check_Out and Total_Hours of rows of E whose Check_Out was empty.
C27_CheckOutTouchesOwnOpenRow ==
    [][\A t \in Threads :
          (th[t].pc = "co_lock" /\ th'[t].pc = "co_write")
          => LET old == ledger[DateOf(th[t].ct)].rows
                 new == th'[t].df
             IN  /\ Len(new) = Len(old)
                 /\ \A i \in 1 .. Len(old) :
                       new[i] # old[i]
                       => /\ OwnedBy(old[i], th[t].emp)
                          /\ old[i].check_out = NoTime
                          /\ new[i].emp = old[i].emp
                          /\ new[i].check_in = old[i].check_in]_vars

\* ================================================= length of a closed record
\* C28: every row with a Check_Out has it at least 60 minutes after its
\* Check_In, and a Total_Hours of at least 1.00.
C28_ClosedRecordLastsAnHour ==
    \A d \in Dates : \A i \in 1 .. Len(ledger[d].rows) :
       LET row == ledger[d].rows[i] IN
       (row.check_out # NoTime /\ row.check_in # NoTime)
          => /\ row.check_out - row.check_in
                   >= MIN_CHECKOUT_MINUTES * SecondsPerMinute
             /\ row.total >= 100

\* ===================================================== one ledger per date
DayCalls == 3
\* The clock advances to an hour before midnight, or by an hour.
DaySteps == {SecondsPerDay - SecondsPerHour, SecondsPerHour}

\* The pages over several days, one request at a time; the clock may advance
\* between any two steps of a call.
DayNext ==
    \/ \E d \in DaySteps : Tick(d)
    \/ AllIdle /\ calls < DayCalls /\ Request
    \/ \E t \in Threads : Step(t)

DaySpec == Init /\ [][DayNext]_vars

\* The step in which get_current_status hands a status to _process_check_in
\* or _process_check_out that passes their guards, and the date of the
\* ledger that status was read from (`today`, line 463).
PassesGuard(t) ==
    /\ th[t].pc \in {"gs", "gs_created"}
    /\ th'[t].pc \in {"ci_read", "co_lock"}
DecidedFrom(t) == IF th[t].pc = "gs" THEN DateOf(now) ELSE th[t].gd
RecordFound == {"previous_session", "already_checked_in", "completed"}

\* C29: a CHECK_IN is rejected for an existing record only when the ledger
\* of a date of the call holds a record of the employee, and a check-in or
\* check-out that goes on to write has decided from the ledger of the date
\* it writes to.
C29_OneDateDecidesAndIsWritten ==
    /\ []((result.mode = "CHECK_IN" /\ result.msg \in RecordFound /\ AllIdle)
            => \E d \in DateOf(result.start) .. DateOf(now) :
                  StateOf(ledger[d], result.emp) # "NoRecord")
    /\ [][\A t \in Threads :
             PassesGuard(t) => DateOf(th[t].ct) = DecidedFrom(t)]_vars

\* ========================================================= blink detection
\* A check_liveness step whose frame had one face that detect_blink
\* processed.
OneFaceProcessed ==
    /\ now' = now
    /\ since_reset'.frames > 0
    /\ Len(verdict'.ears) = 1

\* C30: detect_blink on a frame with an eye aspect ratio below 0.3 adds one
\* to the streak counter and registers nothing; on a frame with a ratio of
\* 0.3 or more it sets the counter to 0 and, when the counter had reached 3,
\* registers exactly one blink and sets the last-blink time to the time of
\* the frame; a counter of 1 or 2 registers no blink.
C30_BlinkAfterThreeLowFrames ==
    [][OneFaceProcessed =>
         IF verdict'.ears[1] < EYE_AR_THRESH
         THEN /\ counter' = counter + 1
              /\ total_blinks' = total_blinks
              /\ last_blink_time' = last_blink_time
         ELSE /\ counter' = 0
              /\ IF counter >= EYE_AR_CONSEC_FRAMES
                 THEN /\ total_blinks' = total_blinks + 1
                      /\ last_blink_time' = now
                 ELSE /\ total_blinks' = total_blinks
                      /\ last_blink_time' = last_blink_time]_vars
C30_Witness ==
    /\ verdict.ears = <<EYE_AR_THRESH>>
    /\ verdict.frames = EYE_AR_CONSEC_FRAMES + 1
    /\ verdict.at = now
    /\ verdict.blink_at = now
    /\ total_blinks = 1
    /\ last_blink_time = now
    /\ counter = 0
    /\ now > 0

\* ============================================================ static photo
\* C31: a verdict of is_live is given only when, since construction or the
\* last reset(), detect_blink has processed an eye aspect ratio below 0.3
\* and one of 0.3 or more: a stream that stays on one side of the threshold
\* never gives is_live, however long it is.
C31_StaticStreamNeverLive ==
    verdict.is_live => verdict.sides = {"low", "high"}
C31_Witness ==
    /\ since_reset.was_live
    /\ since_reset.sides = {"low"}
    /\ counter = MaxCounter
    /\ verdict.frames = EYE_AR_CONSEC_FRAMES + 1
    /\ verdict.sides = {"low"}
    /\ verdict.at - last_blink_time < LIVE_WINDOW
    /\ ~verdict.is_live
    /\ verdict.message = "Please blink naturally"

\* ================================================================ no face
\* C32: a check_liveness call on a frame in which no face is detected
\* answers is_live = false with "No face detected", which is not the blink
\* prompt, and leaves counter, total_blinks and last_blink_time unchanged.
C32_NoFaceChangesNothing ==
    [][(verdict' # verdict /\ verdict'.faces = 0)
         => /\ ~verdict'.is_live
            /\ ~live'
            /\ verdict'.message = "No face detected"
            /\ verdict'.message # "Please blink naturally"
            /\ UNCHANGED <<counter, total_blinks, last_blink_time>>]_vars
C32_Witness ==
    /\ verdict.faces = 0
    /\ verdict.at = now
    /\ verdict.message = "No face detected"
    /\ ~live
    /\ counter = 2
    /\ total_blinks = 1
    /\ IsLive(Detector, now)

\* ================================================ status of a bad ledger
\* What the callers of get_current_status do with a status whose flags are
\* all false.
AsNoRecord(t) ==
    \/ th'[t].pc \in {"ci_start", "ci_read"}
    \/ th'[t].pc = "idle" /\ result'.msg \in {"not_checked_in_today", "not_checked_in"}

\* C33: get_current_status never raises.  When today's file is missing it
\* goes on to create it, the file is then an empty ledger (unless another
\* writer filled it meanwhile) and the status is NoRecord; when the file
\* cannot be read the status has an error message and all its flags false.
C33_StatusReadNeverRaises ==
    [][\A t \in Threads :
          /\ (th[t].pc = "gs" /\ th'[t] # th[t])
             => LET file == ledger[DateOf(now)] IN
                /\ th'[t].pc = "idle" => result'.status # "RAISED"
                /\ file.state = "missing" => th'[t].pc = "gs_create"
                /\ file.state = "partial" =>
                      IF th[t].ret = "query"
                      THEN result'.status = "STATUS" /\ result'.msg = "error"
                      ELSE AsNoRecord(t)
          /\ (th[t].pc = "gs_created" /\ th'[t] # th[t])
             => /\ th'[t].pc = "idle" => result'.status # "RAISED"
                /\ ledger'[th[t].gd].state = "ok"
                /\ ledger[th[t].gd].state # "ok" => ledger'[th[t].gd].rows = <<>>
                /\ IF th[t].ret = "query"
                   THEN result'.status = "STATUS" /\ result'.msg = "no_record"
                   ELSE AsNoRecord(t)]_vars
C33_Witness ==
    /\ result.mode = "STATUS"
    /\ result.msg = "error"
    /\ result.by = "adm"
    /\ th["adm"].pc = "idle"
    /\ th["cam"].pc = "ci_write"
    /\ ledger[DateOf(now)].state = "partial"

GetActiveSessions(file) ==
    LET open == SelectSeq(ReadCsv(file.rows), LAMBDA r : r.check_out = NoTime)
    IN  [i \in 1 .. Len(open) |-> open[i].emp]
\* The list shows employee e: one of its Employee_ID values reads as e.
Listed(sessions, e) ==
    \E i \in 1 .. Len(sessions) :
       sessions[i] = e \/ (e \in NumericIds /\ sessions[i] = FloatStr(e))

\* C35: when no call is in progress, get_active_sessions lists an employee
\* exactly when get_current_status reports is_checked_in for that employee.
C35_SessionsAgreeWithStatus ==
    AllIdle =>
       \A e \in EmpIds :
          Listed(GetActiveSessions(ledger[Today]), e)
             <=> StatusOf(ledger[Today], e, now).is_checked_in

\* ============================================== only registered employees
\* C36: a process_attendance call for a label that is "Unknown" or the name
\* of no registered employee gives no result entry, a manual_attendance call
\* for an id the registry does not have returns ERROR, and neither starts a
\* check-in or check-out or changes a ledger or the cooldown map; every row
\* of every ledger is the row of a registered employee.
C36_OnlyRegisteredEmployees ==
    /\ [][(/\ calls' # calls
           /\ th' = th
           /\ result'.mode \in Modes
           /\ result'.emp \notin employees)
          => /\ UNCHANGED <<ledger, last_processed, returned>>
             /\ result'.origin = "camera" => result'.status = "NONE"
             /\ result'.origin = "manual"
                   => /\ result'.status = "ERROR"
                      /\ result'.msg = "employee_not_found"]_vars
    /\ [](\A d \in Dates : \A i \in 1 .. Len(ledger[d].rows) :
             \E e \in employees : OwnedBy(ledger[d].rows[i], e))
C36_Witness ==
    /\ result.emp \in Unregistered
    /\ result.status = "ERROR"
    /\ result.origin = "manual"
    /\ result.mode = "CHECK_IN"
    /\ AllIdle
    /\ \E e \in EmpIds : StateOf(ledger[Today], e) = "CheckedIn"

\* ================================================================ the lock
LockCalls == 3

\* remove_employee, lines 391-397, on the manual thread: the entry leaves
\* self.employees and _save_employee_data is called.
RemoveEmployeeStart(emp_id) ==
    LET t == "adm" IN
    /\ th[t].pc = "idle"
    /\ emp_id \in employees
    /\ calls' = calls + 1
    /\ employees' = employees \ {emp_id}
    /\ registry' = SelectSeq(registry, LAMBDA r : r.emp_id # emp_id)
    /\ th' = [th EXCEPT ![t] =
          [Idle EXCEPT !.pc = "save_lock", !.origin = "registry",
                       !.emp = emp_id, !.mode = "REMOVE", !.t0 = now]]
    /\ UNCHANGED <<now, ticks, ledger, lock, last_processed, result, returned,
                   live, sideVars, known_faces_dir, known_face_encodings,
                   known_face_names, face_result>>

\* _save_employee_data, lines 34-38: the lock is taken, the file written and
\* the lock released; remove_employee, lines 399-404, then deletes the
\* employee's face image and returns True.
SaveEmployeeData(t) ==
    \/ /\ th[t].pc = "save_lock"
       /\ lock = "free"
       /\ lock' = t
       /\ th' = [th EXCEPT ![t].pc = "save_write"]
       /\ UNCHANGED <<now, ticks, calls, employees, ledger, last_processed,
                      result, returned, live, otherVars>>
    \/ /\ th[t].pc = "save_write"
       /\ lock' = "free"
       /\ Return(t, Res(t, "TRUE", "removed", 0))
       /\ known_faces_dir' =
             SelectSeq(known_faces_dir,
                       LAMBDA file : ~(file.stem = NameOf(th[t].emp)
                                       /\ file.ext = "jpg"))
       /\ UNCHANGED <<now, ticks, calls, employees, ledger, last_processed,
                      returned, live, sideVars, known_face_encodings,
                      known_face_names, registry, face_result>>

\* The two pages served concurrently, with employees removed on the manual
\* thread.
LockNext ==
    \/ ticks < MaxHours /\ Tick(SecondsPerHour)
    \/ calls < LockCalls /\ Request
    \/ calls < LockCalls /\ \E emp_id \in EmpIds : RemoveEmployeeStart(emp_id)
    \/ \E t \in Threads : Step(t)
    \/ \E t \in Threads : SaveEmployeeData(t)

\* Every thread that can take a step eventually takes one.
LockSpec ==
    /\ Init
    /\ [][LockNext]_vars
    /\ \A t \in Threads : WF_vars(Step(t) \/ SaveEmployeeData(t))

\* C37: the lock is free when no call is in progress, it is held only by a
\* call inside its with block, and every call in progress eventually
\* returns.
C37_LockReleasedAndCallsReturn ==
    /\ [](AllIdle => lock = "free")
    /\ [](\A t \in Threads :
             lock = t <=> th[t].pc \in {"ci_write", "co_write", "save_write"})
    /\ \A t \in Threads : (th[t].pc # "idle") ~> (th[t].pc = "idle")
C37_Witness ==
    /\ lock = "cam"
    /\ th["cam"].pc = "co_write"
    /\ th["adm"].pc = "save_lock"

\* ---------------------------------------------------------------------
\* AuthManager: users.json, sessions.json and the permissions of a token.
\* ---------------------------------------------------------------------

SESSION_HOURS == 24
HalfDay == 12 * SecondsPerHour
MaxHalfDays == 3

\* self.roles: the permissions of a role (two of each role's list).
PermissionsOf(role) ==
    CASE role = "admin" -> {"manage_employees", "manage_users"}
      [] role = "user" -> {"mark_attendance", "view_own_attendance"}
      [] OTHER -> {}

\* The last AuthManager call: what was asked, when, and what came back.
AuthResult(op, token, permission, ok) ==
    [op |-> op, token |-> token, permission |-> permission, ok |-> ok,
     at |-> now]

\* The rest of the program, which AuthManager does not touch.
AuthLeaves ==
    UNCHANGED <<live, attendanceVars, detectorVars, faceVars, reportVars,
                cooldownVars>>

\* create_user: a new active account, unless the name is taken.
CreateUser(username, password, role) ==
    /\ PermissionsOf(role) # {}
    /\ IF users_file[username] # NoUser
       THEN /\ users_file' = users_file
            /\ auth_result' = AuthResult("create_user", 0, "", FALSE)
       ELSE /\ users_file' = [users_file EXCEPT ![username] =
                                 [password |-> HashPassword(password),
                                  role |-> role, status |-> "active",
                                  last_login |-> NoTime]]
            /\ auth_result' = AuthResult("create_user", 0, "", TRUE)
    /\ UNCHANGED <<now, sessions_file, pending, issued>>
    /\ AuthLeaves

\* change_user_status, with update_user: never for the main admin account.
ChangeUserStatus(username, status) ==
    /\ status \in {"active", "inactive"}
    /\ IF username = "admin" \/ users_file[username] = NoUser
       THEN /\ users_file' = users_file
            /\ auth_result' = AuthResult("change_user_status", 0, "", FALSE)
       ELSE /\ users_file' = [users_file EXCEPT ![username].status = status]
            /\ auth_result' = AuthResult("change_user_status", 0, "", TRUE)
    /\ UNCHANGED <<now, sessions_file, pending, issued>>
    /\ AuthLeaves

\* login up to its read of sessions.json: the password and the status are
\* checked, last_login is written, the token and its session are made and
\* the session store is read.
LoginRead(username, password) ==
    /\ pending = <<>>
    /\ IF /\ users_file[username] # NoUser
          /\ users_file[username].password = HashPassword(password)
          /\ users_file[username].status = "active"
       THEN /\ Len(issued) < MaxTokens
            /\ users_file' = [users_file EXCEPT ![username].last_login = now]
            /\ issued' = Append(issued,
                                [username |-> username,
                                 role |-> users_file[username].role,
                                 at |-> now, logged_out |-> FALSE])
            /\ pending' =
                   <<[token |-> Len(issued) + 1,
                      session_data |->
                          [username |-> username,
                           role |-> users_file[username].role,
                           permissions |->
                               PermissionsOf(users_file[username].role),
                           expires_at |-> now + SESSION_HOURS * SecondsPerHour],
                      sessions |-> sessions_file]>>
            /\ auth_result' = auth_result
       ELSE /\ auth_result' = AuthResult("login", 0, "", FALSE)
            /\ UNCHANGED <<users_file, issued, pending>>
    /\ UNCHANGED <<now, sessions_file>>
    /\ AuthLeaves

\* login from there: the store it read, with the new session added, is
\* written back and the token is returned.
LoginWrite ==
    /\ pending # <<>>
    /\ sessions_file' = [pending[1].sessions EXCEPT
                            ![pending[1].token] = pending[1].session_data]
    /\ pending' = <<>>
    /\ auth_result' = AuthResult("login", pending[1].token, "", TRUE)
    /\ UNCHANGED <<now, users_file, issued>>
    /\ AuthLeaves

\* has_permission, with verify_session: a stored, unexpired session answers
\* for its permissions; an expired one is removed from the store.
HasPermission(token, permission) ==
    /\ IF token = 0 \/ sessions_file[token] = NoSession
       THEN /\ sessions_file' = sessions_file
            /\ auth_result' = AuthResult("has_permission", token, permission,
                                         FALSE)
       ELSE IF sessions_file[token].expires_at > now
            THEN /\ sessions_file' = sessions_file
                 /\ auth_result' =
                        AuthResult("has_permission", token, permission,
                                   permission \in
                                       sessions_file[token].permissions)
            ELSE /\ sessions_file' = [sessions_file EXCEPT
                                         ![token] = NoSession]
                 /\ auth_result' = AuthResult("has_permission", token,
                                              permission, FALSE)
    /\ UNCHANGED <<now, users_file, pending, issued>>
    /\ AuthLeaves

\* logout: the token is deleted from the store if it is there.
Logout(token) ==
    /\ IF sessions_file[token] = NoSession
       THEN /\ auth_result' = AuthResult("logout", token, "", FALSE)
            /\ UNCHANGED <<sessions_file, issued>>
       ELSE /\ sessions_file' = [sessions_file EXCEPT ![token] = NoSession]
            /\ issued' = IF token <= Len(issued)
                         THEN [issued EXCEPT ![token].logged_out = TRUE]
                         ELSE issued
            /\ auth_result' = AuthResult("logout", token, "", TRUE)
    /\ UNCHANGED <<now, users_file, pending>>
    /\ AuthLeaves

\* Half a day passes.
HalfDayPasses ==
    /\ now < MaxHalfDays * HalfDay
    /\ now' = now + HalfDay
    /\ UNCHANGED authVars
    /\ AuthLeaves

\* The pages of several browser sessions calling AuthManager, each call in
\* one step except login, which another session's call can interleave
\* between its read of sessions.json and its write.
AuthNext ==
    \/ HalfDayPasses
    \/ \E role \in {"admin", "user"} : CreateUser("bob", "pw", role)
    \/ \E status \in {"active", "inactive"} : ChangeUserStatus("bob", status)
    \/ \E username \in {"admin", "bob"}, password \in {"admin123", "pw"} :
           LoginRead(username, password)
    \/ LoginWrite
    \/ \E token \in 0 .. MaxTokens,
          permission \in {"manage_users", "mark_attendance"} :
           HasPermission(token, permission)
    \/ \E token \in 1 .. MaxTokens : Logout(token)

AuthSpec == Init /\ [][AuthNext]_vars

\* C38: has_permission answers true only for a token that a successful
\* login issued, that has not been logged out, that is less than 24 hours
\* old, and for a permission of the role recorded at login; a call on an
\* expired token removes it from the session store.
C38_PermissionNeedsLiveSession ==
    [][(auth_result' # auth_result /\ auth_result'.op = "has_permission") =>
          /\ auth_result'.ok =>
                /\ auth_result'.token \in 1 .. Len(issued)
                /\ ~issued[auth_result'.token].logged_out
                /\ now - issued[auth_result'.token].at
                       < SESSION_HOURS * SecondsPerHour
                /\ auth_result'.permission
                       \in PermissionsOf(issued[auth_result'.token].role)
          /\ \A token \in 1 .. MaxTokens :
                 (/\ auth_result'.token = token
                  /\ sessions_file[token] # NoSession
                  /\ sessions_file[token].expires_at <= now)
                     => sessions_file'[token] = NoSession]_vars

====
